---- MODULE Spec2Model ----
(***************************************************************************)
(* Start Menu Shortcut Creator (src/.venv/main.py).                        *)
(*                                                                         *)
(* Strings are sequences of one-character strings, so that the string      *)
(* operations of the program (splitext, replace, rsplit, strip, endswith,  *)
(* slicing, dirname) are computed character by character.                  *)
(*                                                                         *)
(* Two specifications:                                                     *)
(*   Spec      the request flow of ShortcutCreatorApp: drop, name dialog,  *)
(*             overwrite prompt, shortcut creation, elevation patch,       *)
(*             error box;                                                  *)
(*   SpecName  clean_default_name applied to every file name of a bounded  *)
(*             set.                                                        *)
(***************************************************************************)
EXTENDS Integers, Sequences, FiniteSets, TLC

VARIABLES
    pc,               \* where the UI thread is: idle or blocked in a modal box
    drop_area_text,   \* DropArea text: <<"Prompt">>, <<"Created", name>>, <<"Error">>
    files,            \* the Programs folder: path -> content of the file there
    exe_path,         \* arguments and locals of the request being handled
    default_name,
    shortcut_name,
    run_as_admin,
    shortcut_path,
    err_from,         \* the caller show_error returns to
    hist,             \* history of the request being handled (see NoHist)
    filename,         \* SpecName: argument of clean_default_name
    cleaned,          \* SpecName: its result
    npc               \* SpecName: "start" or "done"

flowVars == <<pc, drop_area_text, files, exe_path, default_name, shortcut_name,
              run_as_admin, shortcut_path, err_from, hist>>
nameVars == <<filename, cleaned, npc>>
vars == <<pc, drop_area_text, files, exe_path, default_name, shortcut_name,
          run_as_admin, shortcut_path, err_from, hist, filename, cleaned, npc>>

----------------------------------------------------------------------------
(* Bounds *)

\* longest file name SpecName draws
MaxLen == 4

\* characters SpecName builds file names from
NameAlphabet == {"a", "v", "_", "-", ".", " "}

----------------------------------------------------------------------------
(* Python string operations *)

\* s[:-n]
DropLast(s, n) == IF Len(s) > n THEN SubSeq(s, 1, Len(s) - n) ELSE <<>>

\* s.rfind(c), 1-based; 0 when c does not occur
RECURSIVE RFindFrom(_, _, _)
RFindFrom(s, c, i) ==
    IF i = 0 THEN 0
    ELSE IF s[i] = c THEN i
    ELSE RFindFrom(s, c, i - 1)

RFind(s, c) == RFindFrom(s, c, Len(s))

\* s.find(c), 1-based; 0 when c does not occur
RECURSIVE FindFrom(_, _, _)
FindFrom(s, c, i) ==
    IF i > Len(s) THEN 0
    ELSE IF s[i] = c THEN i
    ELSE FindFrom(s, c, i + 1)

\* s.replace(old, new) for one-character old and new
Replace(s, old, new) == [i \in 1..Len(s) |-> IF s[i] = old THEN new ELSE s[i]]

IsSpace(c) == c = " "

\* s.lstrip(), s.rstrip(), s.strip()
RECURSIVE LStrip(_)
LStrip(s) == IF s # <<>> /\ IsSpace(Head(s)) THEN LStrip(Tail(s)) ELSE s

RECURSIVE RStrip(_)
RStrip(s) ==
    IF s # <<>> /\ IsSpace(s[Len(s)]) THEN RStrip(SubSeq(s, 1, Len(s) - 1)) ELSE s

Strip(s) == RStrip(LStrip(s))

\* str.lower() on the letters the model uses
LowerChar(c) ==
    CASE c = "A" -> "a"
      [] c = "K" -> "k"
      [] c = "L" -> "l"
      [] c = "M" -> "m"
      [] c = "N" -> "n"
      [] c = "P" -> "p"
      [] c = "S" -> "s"
      [] OTHER -> c

Lower(s) == [i \in 1..Len(s) |-> LowerChar(s[i])]

\* s.endswith(suffix)
EndsWith(s, suffix) ==
    /\ Len(s) >= Len(suffix)
    /\ SubSeq(s, Len(s) - Len(suffix) + 1, Len(s)) = suffix

IsSep(c) == c = "/" \/ c = "\\"

\* index of the last path separator of p, 0 when there is none
RECURSIVE RFindSep(_, _)
RFindSep(p, i) ==
    IF i = 0 THEN 0
    ELSE IF IsSep(p[i]) THEN i
    ELSE RFindSep(p, i - 1)

\* os.path.splitext(p)[0]: the extension starts at the last dot of the last
\* path component, unless only dots precede it in that component
SplitextRoot(p) ==
    LET sepIndex == RFindSep(p, Len(p))
        dotIndex == RFind(p, ".")
    IN  IF /\ dotIndex > sepIndex
           /\ \E i \in (sepIndex + 1)..(dotIndex - 1) : p[i] # "."
        THEN SubSeq(p, 1, dotIndex - 1)
        ELSE p

\* s.split(c, 1)[0]: the part before the first c, all of s when c does not occur
SplitFirst(s, c) ==
    LET i == FindFrom(s, c, 1)
    IN  IF i = 0 THEN s ELSE SubSeq(s, 1, i - 1)

\* a split that never splits
SplitNone(s, c) == s

\* s.rsplit(c, 1)[0]: the part before the last c, all of s when c does not occur
RSplitFirstPart(s, c) ==
    LET i == RFind(s, c)
    IN  IF i = 0 THEN s ELSE SubSeq(s, 1, i - 1)

----------------------------------------------------------------------------
(* clean_default_name *)

clean_default_name(fname) ==
    LET name0 == SplitextRoot(fname)
        name1 == Replace(name0, "_", " ")
        name2 == Replace(name1, "-", " ")
        name3 == Replace(name2, ".", " ")
    IN  Strip(RSplitFirstPart(name3, "v"))

----------------------------------------------------------------------------
(* os.path on Windows (ntpath), for paths with a drive letter or none *)

\* length of the drive part of p: 2 for "c:...", else 0
DriveLen(p) == IF Len(p) >= 2 /\ p[2] = ":" THEN 2 ELSE 0

\* head.rstrip(seps)
RECURSIVE RStripSeps(_)
RStripSeps(s) ==
    IF s # <<>> /\ IsSep(s[Len(s)]) THEN RStripSeps(SubSeq(s, 1, Len(s) - 1)) ELSE s

\* a dirname that keeps the whole path
DirnameWhole(p) == p

\* os.path.dirname(p): the drive, then the rest up to its last separator with
\* trailing separators removed unless nothing else is left
Dirname(p) ==
    LET d    == DriveLen(p)
        rest == SubSeq(p, d + 1, Len(p))
        i    == RFindSep(rest, Len(rest))
        head == SubSeq(rest, 1, i)
        cut  == RStripSeps(head)
    IN  SubSeq(p, 1, d) \o (IF cut # <<>> THEN cut ELSE head)

\* os.path.basename(p)
Basename(p) ==
    LET d    == DriveLen(p)
        rest == SubSeq(p, d + 1, Len(p))
        i    == RFindSep(rest, Len(rest))
    IN  SubSeq(rest, i + 1, Len(rest))

\* os.path.join(folder, name) for a relative name
Join(folder, name) ==
    IF folder # <<>> /\ ~IsSep(folder[Len(folder)]) /\ folder[Len(folder)] # ":"
    THEN folder \o <<"\\">> \o name
    ELSE folder \o name

\* get_programs_folder: %APPDATA%\Microsoft\Windows\Start Menu\Programs, written
\* as the one-character folder name P
get_programs_folder == <<"P">>

LnkExt == <<".", "l", "n", "k">>

AdminSuffix == <<"_", "a", "d", "m", "i", "n", ".", "l", "n", "k">>

get_shortcut_path(programs_folder, name) ==
    Join(programs_folder,
         IF EndsWith(Lower(name), LnkExt) THEN name ELSE name \o LnkExt)

\* shortcut_path[:-4] + "_admin.lnk"
shortcut_path_pre(path) == DropLast(path, 4) \o AdminSuffix

----------------------------------------------------------------------------
(* The file system and the link file *)

\* Windows file names are case-insensitive: a file is kept under its lowered path
FsKey(path) == Lower(path)

Exists(fs, path) == FsKey(path) \in DOMAIN fs

WriteFile(fs, path, content) ==
    [k \in DOMAIN fs \cup {FsKey(path)} |->
        IF k = FsKey(path) THEN content ELSE fs[k]]

RemoveFile(fs, path) == [k \in DOMAIN fs \ {FsKey(path)} |-> fs[k]]

\* offset of the flag byte and the "run as administrator" bit in it
FlagOffset == 21
AdminBit == 32

\* a OR b on the 8 bits of a byte
RECURSIVE BitOrN(_, _, _)
BitOrN(a, b, n) ==
    IF n = 0 THEN 0
    ELSE (IF a % 2 = 1 \/ b % 2 = 1 THEN 1 ELSE 0)
         + 2 * BitOrN(a \div 2, b \div 2, n - 1)

BitOr(a, b) == BitOrN(a, b, 8)

\* bytes 0x00..0x15 of a link file the shell writes: header size, link CLSID,
\* low byte of the link flags, then the byte at 0x15, which the shell chooses
OsHeader(b15) ==
    <<76, 0, 0, 0, 1, 20, 2, 0, 0, 0, 0, 0, 192, 0, 0, 0, 0, 0, 0, 70, 0, b15>>

\* values the shell may give the byte at 0x15
OsFlagBytes == {0, 33}

\* a link file: its first 22 bytes and the two fields stored after them
LinkFile(b15, target, workdir) ==
    [hdr |-> OsHeader(b15), target |-> target, workdir |-> workdir]

\* a file of the Programs folder this program did not write
Foreign == LinkFile(0, <<"x">>, <<>>)

NoFile == [hdr |-> <<>>, target |-> <<>>, workdir |-> <<>>]

\* $bytes[0x15] = $bytes[0x15] -bor 0x20
PatchBytes(bytes) ==
    [bytes EXCEPT !.hdr[FlagOffset + 1] = BitOr(@, AdminBit)]

----------------------------------------------------------------------------
(* create_windows_shortcut *)

\* What the collaborators do in one call of create_windows_shortcut:
\*   save_ok    the shell's Save writes the link file (else it raises)
\*   os_byte    the byte at 0x15 of the file Save writes
\*   launch_ok  subprocess.run starts powershell (else it raises)
\*   read_ok, write_ok, remove_ok
\*              ReadAllBytes, WriteAllBytes, Remove-Item succeed (given a file
\*              to read, bytes to write, a file to remove)
\* The outcome of a call that is not made is fixed (TRUE, byte 0), so that
\* each course of events is drawn once.
Environments(admin) ==
    { e \in [save_ok : BOOLEAN, os_byte : OsFlagBytes, launch_ok : BOOLEAN,
             read_ok : BOOLEAN, write_ok : BOOLEAN, remove_ok : BOOLEAN] :
        /\ ~e.save_ok => e.os_byte = 0
        /\ ~(admin /\ e.save_ok) => e.launch_ok
        /\ ~(admin /\ e.save_ok /\ e.launch_ok) => e.read_ok /\ e.remove_ok
        /\ ~(admin /\ e.save_ok /\ e.launch_ok /\ e.read_ok) => e.write_ok }

\* The four statements of ps_script, run by powershell -Command.  An exception
\* of a .NET method call ends its statement only: the script goes on with the
\* next statement, and the exit code is that of the last one, Remove-Item.
\* Result: the file system after the script, the exit code, the statements
\* that failed.
RunPsScript(fs, pre, final, env) ==
    LET have_bytes == env.read_ok /\ Exists(fs, pre)
        bytes      == IF have_bytes THEN PatchBytes(fs[FsKey(pre)]) ELSE NoFile
        written    == have_bytes /\ env.write_ok
        fs1        == IF written THEN WriteFile(fs, final, bytes) ELSE fs
        removed    == env.remove_ok /\ Exists(fs1, pre)
        fs2        == IF removed THEN RemoveFile(fs1, pre) ELSE fs1
    IN  [fs       |-> fs2,
         exitcode |-> IF removed THEN 0 ELSE 1,
         failed   |-> (IF have_bytes THEN {} ELSE {"read", "patch"})
                      \cup (IF written THEN {} ELSE {"write"})
                      \cup (IF removed THEN {} ELSE {"remove"})]

\* Result of create_windows_shortcut: the file system it leaves, the exception
\* it raises ("" for none), the bytes Save wrote, the steps that failed, the
\* number of Save calls and of powershell runs, and whether Remove-Item ran.
create_windows_shortcut(fs, exe, path, admin, env) ==
    LET link == LinkFile(env.os_byte, exe, Dirname(exe))
        pre  == shortcut_path_pre(path)
        base == [fs |-> fs, raised |-> "", os_out |-> NoFile, failed |-> {},
                 saves |-> 1, ps_runs |-> 0, remove_ran |-> FALSE]
    IN  IF admin
        THEN IF ~env.save_ok
             THEN [base EXCEPT !.raised = "com_error", !.failed = {"save"}]
             ELSE LET fs1 == WriteFile(fs, pre, link)
                  IN  IF ~env.launch_ok
                      THEN [base EXCEPT !.fs = fs1, !.os_out = link,
                                        !.raised = "FileNotFoundError",
                                        !.failed = {"launch"}]
                      ELSE LET r == RunPsScript(fs1, pre, path, env)
                           IN  [base EXCEPT
                                  !.fs = r.fs, !.os_out = link,
                                  !.raised = IF r.exitcode # 0
                                             THEN "CalledProcessError" ELSE "",
                                  !.failed = r.failed,
                                  !.ps_runs = 1, !.remove_ran = TRUE]
        ELSE IF ~env.save_ok
             THEN [base EXCEPT !.raised = "com_error", !.failed = {"save"}]
             ELSE [base EXCEPT !.fs = WriteFile(fs, path, link), !.os_out = link]

\* the result before create_windows_shortcut was called
NoResult ==
    [fs |-> <<>>, raised |-> "", os_out |-> NoFile, failed |-> {},
     saves |-> 0, ps_runs |-> 0, remove_ran |-> FALSE]

----------------------------------------------------------------------------
(* The request flow *)

\* executables the user drops: c:/p/a.exe and c:/a-v1.exe
ExeA == <<"c", ":", "/", "p", "/", "a", ".", "e", "x", "e">>
ExeB == <<"c", ":", "/", "a", "-", "v", "1", ".", "e", "x", "e">>
ExePaths == {ExeA, ExeB}

\* texts the user may leave in the name field besides the default name:
\* " ", "a_admin", "a.LNK"
TypedNames ==
    { <<" ">>,
      <<"a", "_", "a", "d", "m", "i", "n">>,
      <<"a", ".", "L", "N", "K">> }

\* files that may be in the Programs folder when the program starts
InitialPaths ==
    { FsKey(get_shortcut_path(get_programs_folder, <<"a">>)),
      FsKey(get_shortcut_path(get_programs_folder, <<"a", "_", "a", "d", "m", "i", "n">>)) }

\* History of the request being handled:
\*   src_exists     what os.path.exists(exe_path) returned ("unknown" before)
\*   dialog_opened  ShortcutNameDialog was shown
\*   notifications  number of QMessageBox.critical boxes shown
\*   err_title      title of the last one
\*   reply          answer to the overwrite question ("none", "Yes", "No")
\*   asked          paths the overwrite question was asked about
\*   result         what create_windows_shortcut did (NoResult before the call)
NoHist ==
    [src_exists |-> "unknown", dialog_opened |-> FALSE, notifications |-> 0,
     err_title |-> "", reply |-> "none", asked |-> {}, result |-> NoResult]

PromptText == <<"Prompt">>
ErrorText == <<"Error creating shortcut">>
CreatedText(name) == <<"Created", name>>

\* show_error: the drop area text, then a blocking critical box
show_error(h, title, from) ==
    /\ drop_area_text' = ErrorText
    /\ pc' = "error_box"
    /\ err_from' = from
    /\ hist' = [h EXCEPT !.notifications = @ + 1, !.err_title = title]

\* reply == QMessageBox.StandardButton.Yes
DeclinedSwapped(reply) == reply = "Yes"

\* check_existing_shortcut on an existing path: True (do not overwrite) when
\* reply == QMessageBox.StandardButton.No
Declined(reply) == reply = "No"

\* create_shortcut from the call of create_windows_shortcut on, and the
\* statement of prompt_shortcut_options after it
CreateAndReport(h, exe, name, path, admin) ==
    \E env \in Environments(admin) :
        LET r == create_windows_shortcut(files, exe, path, admin, env)
            h1 == [h EXCEPT !.result = [r EXCEPT !.fs = <<>>]]
        IN  /\ files' = r.fs
            /\ IF r.raised # ""
               THEN show_error(h1, "Shortcut Creation Failed", "create_shortcut")
               ELSE /\ drop_area_text' = CreatedText(name)
                    /\ pc' = "idle"
                    /\ hist' = h1
                    /\ UNCHANGED err_from

\* process_dropped_file without the return after show_error
process_dropped_file_fallthrough(p, exists) ==
    /\ pc = "idle"
    /\ exe_path' = p
    /\ default_name' = clean_default_name(Basename(p))
    /\ pc' = "name_dialog"
    /\ hist' = [NoHist EXCEPT !.src_exists = IF exists THEN "yes" ELSE "no",
                              !.dialog_opened = TRUE,
                              !.notifications = IF exists THEN 0 ELSE 1,
                              !.err_title = IF exists THEN "" ELSE "File not found"]
    /\ drop_area_text' = IF exists THEN drop_area_text ELSE ErrorText
    /\ shortcut_name' = <<>>
    /\ run_as_admin' = FALSE
    /\ shortcut_path' = <<>>
    /\ UNCHANGED <<files, err_from>>
    /\ UNCHANGED nameVars

\* process_dropped_file(exe_path), entered from dropEvent or browse_for_exe,
\* up to the blocking box or dialog it opens
process_dropped_file(p, exists) ==
    /\ pc = "idle"
    /\ exe_path' = p
    /\ LET h == [NoHist EXCEPT !.src_exists = IF exists THEN "yes" ELSE "no"]
       IN  IF ~exists
           THEN /\ show_error(h, "File not found", "process_dropped_file")
                /\ default_name' = <<>>
           ELSE /\ default_name' = clean_default_name(Basename(p))
                /\ pc' = "name_dialog"
                /\ hist' = [h EXCEPT !.dialog_opened = TRUE]
                /\ UNCHANGED <<drop_area_text, err_from>>
    /\ shortcut_name' = <<>>
    /\ run_as_admin' = FALSE
    /\ shortcut_path' = <<>>
    /\ UNCHANGED files
    /\ UNCHANGED nameVars

\* the user cancels ShortcutNameDialog
DialogRejected ==
    /\ pc = "name_dialog"
    /\ pc' = "idle"
    /\ UNCHANGED <<drop_area_text, files, exe_path, default_name, shortcut_name,
                   run_as_admin, shortcut_path, err_from, hist>>
    /\ UNCHANGED nameVars

\* the user presses Create: prompt_shortcut_options goes on into
\* create_shortcut, up to the overwrite question or to the end of the request
DialogAccepted(text, admin) ==
    /\ pc = "name_dialog"
    /\ LET name == Strip(text)
           path == get_shortcut_path(get_programs_folder, name)
       IN  /\ shortcut_name' = name
           /\ run_as_admin' = admin
           /\ IF name = <<>>
              THEN /\ pc' = "idle"
                   /\ UNCHANGED <<drop_area_text, files, shortcut_path, err_from, hist>>
              ELSE /\ shortcut_path' = path
                   /\ IF Exists(files, path)
                      THEN /\ pc' = "overwrite_prompt"
                           /\ hist' = [hist EXCEPT !.asked = @ \cup {FsKey(path)}]
                           /\ UNCHANGED <<drop_area_text, files, err_from>>
                      ELSE CreateAndReport(hist, exe_path, name, path, admin)
    /\ UNCHANGED <<exe_path, default_name>>
    /\ UNCHANGED nameVars

\* the user answers the overwrite question
OverwriteAnswered(reply) ==
    /\ pc = "overwrite_prompt"
    /\ LET h == [hist EXCEPT !.reply = reply]
       IN  IF Declined(reply)
           THEN /\ drop_area_text' = CreatedText(shortcut_name)
                /\ pc' = "idle"
                /\ hist' = h
                /\ UNCHANGED <<files, err_from>>
           ELSE CreateAndReport(h, exe_path, shortcut_name, shortcut_path,
                                run_as_admin)
    /\ UNCHANGED <<exe_path, default_name, shortcut_name, run_as_admin, shortcut_path>>
    /\ UNCHANGED nameVars

\* the user closes the critical box: show_error returns to its caller
ErrorDismissed ==
    /\ pc = "error_box"
    /\ pc' = "idle"
    /\ drop_area_text' = IF err_from = "create_shortcut"
                         THEN CreatedText(shortcut_name)
                         ELSE drop_area_text
    /\ UNCHANGED <<files, exe_path, default_name, shortcut_name, run_as_admin,
                   shortcut_path, err_from, hist>>
    /\ UNCHANGED nameVars

Init ==
    /\ pc = "idle"
    /\ drop_area_text = PromptText
    /\ \E present \in SUBSET InitialPaths : files = [k \in present |-> Foreign]
    /\ exe_path = <<>>
    /\ default_name = <<>>
    /\ shortcut_name = <<>>
    /\ run_as_admin = FALSE
    /\ shortcut_path = <<>>
    /\ err_from = ""
    /\ hist = NoHist
    /\ filename = <<>>
    /\ cleaned = <<>>
    /\ npc = "idle"

Next ==
    \/ \E p \in ExePaths, exists \in BOOLEAN : process_dropped_file(p, exists)
    \/ DialogRejected
    \/ \E text \in TypedNames \cup {default_name}, admin \in BOOLEAN :
          DialogAccepted(text, admin)
    \/ \E reply \in {"Yes", "No"} : OverwriteAnswered(reply)
    \/ ErrorDismissed

Spec == Init /\ [][Next]_vars

----------------------------------------------------------------------------
(* clean_default_name on a bounded set of file names *)

RECURSIVE SeqsUpTo(_, _)
SeqsUpTo(S, n) ==
    IF n = 0 THEN {<<>>}
    ELSE LET shorter == SeqsUpTo(S, n - 1)
         IN  shorter \cup {Append(s, c) : s \in shorter, c \in S}

MyAppExe == <<"M", "y", "-", "A", "p", "p", "_", "v", "2", ".", "e", "x", "e">>
ServiceExe == <<"S", "e", "r", "v", "i", "c", "e", ".", "e", "x", "e">>

FileNames == SeqsUpTo(NameAlphabet, MaxLen) \cup {MyAppExe, ServiceExe}

InitName ==
    /\ pc = "idle"
    /\ drop_area_text = PromptText
    /\ files = <<>>
    /\ exe_path = <<>>
    /\ default_name = <<>>
    /\ shortcut_name = <<>>
    /\ run_as_admin = FALSE
    /\ shortcut_path = <<>>
    /\ err_from = ""
    /\ hist = NoHist
    /\ filename \in FileNames
    /\ cleaned = <<>>
    /\ npc = "start"

\* default_name = self.clean_default_name(exe_name)
CleanName ==
    /\ npc = "start"
    /\ cleaned' = clean_default_name(filename)
    /\ npc' = "done"
    /\ UNCHANGED filename
    /\ UNCHANGED flowVars

NextName == CleanName

SpecName == InitName /\ [][NextName]_vars

----------------------------------------------------------------------------
(* Vocabulary of the properties *)

HasBit(byte, bit) == (byte \div bit) % 2 = 1

FileAt(path) == files[FsKey(path)]

\* parent directory of each executable: c:/p and c:/
ParentOf(exe) ==
    IF exe = ExeA THEN <<"c", ":", "/", "p">> ELSE <<"c", ":", "/">>

SetMax(S) == CHOOSE x \in S : \A y \in S : y <= x
SetMin(S) == CHOOSE x \in S : \A y \in S : x <= y

Positions(s, chars) == {i \in 1..Len(s) : s[i] \in chars}

\* the file name without its extension: the part before its last dot, when
\* something other than dots precedes that dot
ExtStripped(f) ==
    LET dots == Positions(f, {"."})
    IN  IF dots = {} \/ (\A i \in 1..(SetMax(dots) - 1) : f[i] = ".")
        THEN f
        ELSE SubSeq(f, 1, SetMax(dots) - 1)

SepsToSpaces(s) ==
    [i \in 1..Len(s) |-> IF s[i] \in {"_", "-", "."} THEN " " ELSE s[i]]

CutAtFirstV(s) ==
    LET vs == Positions(s, {"v"})
    IN  IF vs = {} THEN s ELSE SubSeq(s, 1, SetMin(vs) - 1)

CutAtLastV(s) ==
    LET vs == Positions(s, {"v"})
    IN  IF vs = {} THEN s ELSE SubSeq(s, 1, SetMax(vs) - 1)

Trimmed(s) ==
    LET ink == {i \in 1..Len(s) : s[i] # " "}
    IN  IF ink = {} THEN <<>> ELSE SubSeq(s, SetMin(ink), SetMax(ink))

\* the request ran create_windows_shortcut to its end and no error box was shown
CompletedWithoutError ==
    /\ pc = "idle"
    /\ hist.result.saves = 1
    /\ hist.notifications = 0

\* some step of the request failed
RequestFailed == hist.src_exists = "no" \/ hist.result.failed # {}

----------------------------------------------------------------------------
(* Properties *)

\* C1: after an elevated request that completes without error, the file at the
\* final path has bit 0x20 of byte 0x15 set, its other bytes are those the
\* shell wrote, and the temporary _admin file is gone.
C1_ElevatedFinalPatched ==
    (CompletedWithoutError /\ run_as_admin) =>
        /\ Exists(files, shortcut_path)
        /\ HasBit(FileAt(shortcut_path).hdr[FlagOffset + 1], AdminBit)
        /\ \A i \in 1..FlagOffset :
               FileAt(shortcut_path).hdr[i] = hist.result.os_out.hdr[i]
        /\ FileAt(shortcut_path).target = hist.result.os_out.target
        /\ FileAt(shortcut_path).workdir = hist.result.os_out.workdir
        /\ ~Exists(files, shortcut_path_pre(shortcut_path))

\* C2: after a failed elevated request the temporary file and the final file
\* do not both exist, and when the temporary file was created its deletion was
\* attempted.
C2_NoTempBesideFinal ==
    (run_as_admin /\ hist.result.raised # "") =>
        /\ ~(/\ Exists(files, shortcut_path_pre(shortcut_path))
             /\ Exists(files, shortcut_path))
        /\ hist.result.os_out # NoFile => hist.result.remove_ran

\* C3: answering No to the overwrite question changes no file, raises no
\* error and ends the request without a call of the shortcut API, elevated or
\* not.
C3_DeclineIsNoOp ==
    [][(pc = "overwrite_prompt" /\ hist'.reply = "No") =>
          /\ files' = files
          /\ hist'.notifications = 0
          /\ hist'.result = NoResult
          /\ pc' = "idle"]_vars

\* C3 witness: an elevated request ended by the answer No.
C3_Witness == pc = "idle" /\ hist.reply = "No" /\ run_as_admin

\* C4: a request whose source does not exist shows the "File not found" box,
\* never opens the name dialog, never calls the shortcut API and changes no
\* file.
C4_MissingSourceWritesNothing ==
    [][hist'.src_exists = "no" =>
          /\ files' = files
          /\ ~hist'.dialog_opened
          /\ hist'.result = NoResult
          /\ hist'.notifications = 1
          /\ hist'.err_title = "File not found"
          /\ drop_area_text' = ErrorText
          /\ pc' \in {"error_box", "idle"}]_vars

\* C4 witness: the box of a request whose source does not exist is open.
C4_Witness == hist.src_exists = "no" /\ pc = "error_box"

\* C5: every link file the program wrote has an executable the user dropped
\* as target and that executable's parent directory as working directory; the
\* file a completed request leaves at its path has the request's executable
\* as target, and without elevation it is the file the shell wrote.
C5_TargetAndWorkdir ==
    /\ \A k \in DOMAIN files :
          \/ files[k] = Foreign
          \/ \E e \in ExePaths :
                files[k].target = e /\ files[k].workdir = ParentOf(e)
    /\ (pc = "idle" /\ hist.result.saves = 1 /\ hist.result.failed = {}) =>
          /\ Exists(files, shortcut_path)
          /\ FileAt(shortcut_path).target = exe_path
          /\ FileAt(shortcut_path).workdir = ParentOf(exe_path)
          /\ ~run_as_admin =>
                /\ FileAt(shortcut_path) = hist.result.os_out
                /\ FileAt(shortcut_path).hdr[FlagOffset + 1] \in OsFlagBytes

\* C5 witness: a request without elevation has overwritten an existing file
\* with a shortcut to c:/a-v1.exe.
C5_Witness ==
    /\ pc = "idle"
    /\ hist.result.saves = 1
    /\ hist.result.failed = {}
    /\ hist.reply = "Yes"
    /\ ~run_as_admin
    /\ exe_path = ExeB

\* C6: every failure of a request (missing source, shortcut API, patch or file
\* I/O) is shown in exactly one error box, nothing is tried twice, and the
\* window is idle again once the box is closed.
C6_EveryFailureSurfaced ==
    RequestFailed =>
        /\ hist.notifications = 1
        /\ hist.result.saves <= 1
        /\ hist.result.ps_runs <= 1
        /\ pc \in {"error_box", "idle"}

\* C7 as claimed: clean_default_name strips the extension, replaces _ - . by
\* spaces, cuts at the first v and trims.
C7_CutAtFirstV ==
    npc = "done" =>
        cleaned = Trimmed(CutAtFirstV(SepsToSpaces(ExtStripped(filename))))

\* C7 as amended: clean_default_name strips the extension, replaces _ - . by
\* spaces, cuts at the last v and trims.
C7_CutAtLastV ==
    npc = "done" =>
        cleaned = Trimmed(CutAtLastV(SepsToSpaces(ExtStripped(filename))))

\* C7 witness: "avav" was cleaned to "ava".
C7_Witness ==
    /\ npc = "done"
    /\ filename = <<"a", "v", "a", "v">>
    /\ cleaned = <<"a", "v", "a">>

\* C8 as claimed: "My-App_v2.exe" gives "My App" and "Service.exe" gives
\* "Service".
C8_ServiceKept ==
    npc = "done" =>
        /\ filename = MyAppExe => cleaned = <<"M", "y", " ", "A", "p", "p">>
        /\ filename = ServiceExe =>
              cleaned = <<"S", "e", "r", "v", "i", "c", "e">>

\* C8 as amended: "My-App_v2.exe" gives "My App" and "Service.exe" gives
\* "Ser".
C8_ServiceCut ==
    npc = "done" =>
        /\ filename = MyAppExe => cleaned = <<"M", "y", " ", "A", "p", "p">>
        /\ filename = ServiceExe => cleaned = <<"S", "e", "r">>

\* C8 witness: "Service.exe" was cleaned.
C8_Witness == npc = "done" /\ filename = ServiceExe

\* C9: a file of the Programs folder is overwritten or deleted only in a
\* request that asked about that file's path and was answered Yes.
C9_NoUnaskedOverwrite ==
    [][\A k \in DOMAIN files :
          (k \notin DOMAIN files' \/ files'[k] # files[k]) =>
              (k \in hist'.asked /\ hist'.reply = "Yes")]_vars

\* C10: after a request that ended in an error or in which the user declined
\* the overwrite, the drop area does not read "Created: <name>".
C10_CreatedOnlyWhenWritten ==
    (pc = "idle" /\ (hist.reply = "No" \/ hist.notifications > 0)) =>
        drop_area_text[1] # "Created"

====
